---- MODULE Spec2Model ----
(***************************************************************************)
(* pfm-ml: transaction classifier.  Feature derivation (serving and        *)
(* training paths), the inference ranker of the HTTP service and of the    *)
(* command-line predictor, and the synthetic data generator.               *)
(*                                                                         *)
(* Text is a sequence of one-character strings, so that lower-casing and   *)
(* timestamp parsing are computed and not assumed.  Amounts are integers   *)
(* in hundredths; probabilities are integers in units of 1/ProbScale.      *)
(***************************************************************************)
EXTENDS Integers, Sequences, FiniteSets, TLC

VARIABLES
    raw,            \* features: the raw transaction being derived
    httpRow,        \* features: result of app/main.py _build_feature_row
    cliRow,         \* features: result of predict.py build_feature_row
    batchRow,       \* features: result of the ml/features.py batch path
    entry,          \* inference: the program of this run, "http" or "cli"
    modelFile,      \* inference: what the file at the model path holds
    server,         \* app/main.py: "created", "serving" or "exited"
    _pipeline,      \* app/main.py: the module's _pipeline
    _class_names,   \* app/main.py: the module's _class_names
    httpReq,        \* app/main.py: the body of the request being answered
    httpResp,       \* app/main.py: the response being sent, or None
    cliArgs,        \* predict.py: the parsed command line of the run
    cliOut,         \* predict.py: how the run of main() ended
    rng,            \* generator: the state of the module-level random source
    otherDraws,     \* generator: draws made by other callers of random
    synthCalls,     \* generator: the calls of synthesize_dataset, each with
                    \*   its arguments and the records it returned
    amountOut       \* utils/amount.py, settings.py: the call made of the
                    \*   amount sampler or of AmountSpec, with its outcome

featVars == <<raw, httpRow, cliRow, batchRow>>

serveVars == <<entry, modelFile, server, _pipeline, _class_names, httpReq,
               httpResp, cliArgs, cliOut>>

synthVars == <<rng, otherDraws, synthCalls, amountOut>>

vars == <<featVars, serveVars, synthVars>>

None == [kind |-> "None"]

(***************************************************************************)
(* Text                                                                    *)
(***************************************************************************)
UpperChars == <<"A","B","C","D","E","F","G","H","I","J","K","L","M",
                "N","O","P","Q","R","S","T","U","V","W","X","Y","Z">>

LowerChars == <<"a","b","c","d","e","f","g","h","i","j","k","l","m",
                "n","o","p","q","r","s","t","u","v","w","x","y","z">>

\* str.lower() on one character: an upper-case letter maps to its lower-case
\* letter, every other character is kept.
LowerChar(c) ==
    IF \E i \in 1..Len(UpperChars) : UpperChars[i] = c
    THEN LowerChars[CHOOSE i \in 1..Len(UpperChars) : UpperChars[i] = c]
    ELSE c

StrLower(s) == [i \in 1..Len(s) |-> LowerChar(s[i])]

\* Series.fillna(""): a missing value becomes the empty string.
FillNa(s) == IF s = None THEN <<>> ELSE s

(***************************************************************************)
(* Timestamps                                                              *)
(***************************************************************************)
Digits == <<"0","1","2","3","4","5","6","7","8","9">>

IsDigit(c) == \E i \in 1..Len(Digits) : Digits[i] = c

DigitVal(c) == (CHOOSE i \in 1..Len(Digits) : Digits[i] = c) - 1

AllDigits(s, from, to) == \A i \in from..to : IsDigit(s[i])

Num2(s, i) == 10 * DigitVal(s[i]) + DigitVal(s[i+1])

Num4(s, i) == 100 * Num2(s, i) + Num2(s, i+2)

IsLeap(y) == (y % 4 = 0 /\ y % 100 # 0) \/ y % 400 = 0

DaysInMonth(y, m) ==
    IF m = 2 THEN (IF IsLeap(y) THEN 29 ELSE 28)
    ELSE IF m \in {4, 6, 9, 11} THEN 30 ELSE 31

NaT == [kind |-> "NaT"]

ParseFailure == [kind |-> "ParseFailure"]

\* The datetime parser on the strings of the model: ISO-8601 dates
\* "YYYY-MM-DD", optionally followed by "T" or " " and "HH:MM:SS".  The
\* empty string is a missing value (NaT); anything else does not parse.
DateOk(s) ==
    /\ Len(s) >= 10
    /\ AllDigits(s, 1, 4) /\ s[5] = "-" /\ AllDigits(s, 6, 7)
    /\ s[8] = "-" /\ AllDigits(s, 9, 10)
    /\ Num2(s, 6) \in 1..12
    /\ Num2(s, 9) \in 1..DaysInMonth(Num4(s, 1), Num2(s, 6))

TimeOk(s) ==
    /\ Len(s) = 19
    /\ s[11] \in {"T", " "}
    /\ AllDigits(s, 12, 13) /\ s[14] = ":" /\ AllDigits(s, 15, 16)
    /\ s[17] = ":" /\ AllDigits(s, 18, 19)
    /\ Num2(s, 12) \in 0..23 /\ Num2(s, 15) \in 0..59 /\ Num2(s, 18) \in 0..59

ParseIso(s) ==
    IF Len(s) = 0 THEN NaT
    ELSE IF DateOk(s) /\ Len(s) = 10
    THEN [kind |-> "Timestamp", year |-> Num4(s, 1), month |-> Num2(s, 6),
          day |-> Num2(s, 9), hour |-> 0, minute |-> 0, second |-> 0]
    ELSE IF DateOk(s) /\ TimeOk(s)
    THEN [kind |-> "Timestamp", year |-> Num4(s, 1), month |-> Num2(s, 6),
          day |-> Num2(s, 9), hour |-> Num2(s, 12), minute |-> Num2(s, 15),
          second |-> Num2(s, 18)]
    ELSE ParseFailure

\* pd.to_datetime(x, errors="coerce"): a string that does not parse is NaT.
ToDatetimeCoerce(s) ==
    LET p == ParseIso(s) IN IF p = ParseFailure THEN NaT ELSE p

\* pd.to_datetime(x) with the default errors="raise": a string that does
\* not parse raises; a missing value is still NaT.
ToDatetimeRaise(s) == ParseIso(s)

\* Days since 1970-01-01 of a civil date (proleptic Gregorian calendar).
DaysFromCivil(y, m, d) ==
    LET yy  == IF m <= 2 THEN y - 1 ELSE y
        era == yy \div 400
        yoe == yy - era * 400
        mp  == (m + 9) % 12
        doy == (153 * mp + 2) \div 5 + d - 1
        doe == yoe * 365 + yoe \div 4 - yoe \div 100 + doy
    IN  era * 146097 + doe - 719468

\* Timestamp.dayofweek: Monday = 0 ... Sunday = 6 (1970-01-01 is a Thursday).
DayOfWeek(ts) == (DaysFromCivil(ts.year, ts.month, ts.day) + 3) % 7

\* The float NaN that Series.dt.hour / dt.dayofweek hold for a NaT entry.
NaN == -1

DefaultIsoDatetime ==
    <<"2","0","2","5","-","0","8","-","2","4","T","0","9",":","0","0",":","0","0">>

(***************************************************************************)
(* Feature derivation: serving paths                                       *)
(***************************************************************************)
\* A one-row DataFrame is the sequence of its columns, each a pair of the
\* column's name and the row's value.
Col(df, name) == df[CHOOSE i \in 1..Len(df) : df[i][1] = name][2]

Ok(row) == [status |-> "ok", row |-> row]

Raised(error) == [status |-> "raised", error |-> error]

\* int(ts.hour), int(ts.dayofweek), int(day_of_week >= 5).  On NaT the
\* attributes are NaN and int() raises ValueError.
TimeFeatures(ts) ==
    IF ts.kind # "Timestamp" THEN Raised("ValueError")
    ELSE LET day_of_week == DayOfWeek(ts)
         IN  [status |-> "ok", hour |-> ts.hour, day_of_week |-> day_of_week,
              is_weekend |-> IF day_of_week >= 5 THEN 1 ELSE 0]

\* _add_time_features without the NaT test: the parse result is used as it is.
AddTimeFeaturesNoFallback(iso_datetime) ==
    TimeFeatures(ToDatetimeCoerce(iso_datetime))

\* app/main.py _add_time_features
_add_time_features(iso_datetime) ==
    LET parsed == ToDatetimeCoerce(iso_datetime)
        ts     == IF parsed = NaT THEN ToDatetimeRaise(DefaultIsoDatetime)
                  ELSE parsed
    IN  TimeFeatures(ts)

\* predict.py add_time_features
add_time_features(iso_datetime) ==
    LET parsed == ToDatetimeCoerce(iso_datetime)
        ts     == IF parsed = NaT THEN ToDatetimeRaise(DefaultIsoDatetime)
                  ELSE parsed
    IN  TimeFeatures(ts)

\* float(amount): the amount is already a float on every path.
PyFloat(amount) == amount

\* app/main.py _build_feature_row: the one-row frame, or the exception.
_build_feature_row(merchant, description, amount, iso_datetime) ==
    LET t == _add_time_features(iso_datetime)
    IN  IF t.status = "raised" THEN t
        ELSE Ok(<< <<"combined_text",
                     StrLower(merchant \o <<" ">> \o description)>>,
                   <<"merchant_text", StrLower(merchant)>>,
                   <<"amount", PyFloat(amount)>>,
                   <<"hour", t.hour>>,
                   <<"day_of_week", t.day_of_week>>,
                   <<"is_weekend", t.is_weekend>> >>)

\* predict.py build_feature_row: the one-row frame, or the exception.
build_feature_row(merchant, description, amount, iso_datetime) ==
    LET t == add_time_features(iso_datetime)
    IN  IF t.status = "raised" THEN t
        ELSE Ok(<< <<"combined_text",
                     StrLower(merchant \o <<" ">> \o description)>>,
                   <<"merchant_text", StrLower(merchant)>>,
                   <<"amount", PyFloat(amount)>>,
                   <<"hour", t.hour>>,
                   <<"day_of_week", t.day_of_week>>,
                   <<"is_weekend", t.is_weekend>> >>)

(***************************************************************************)
(* Feature derivation: training (batch) path, on a one-row table           *)
(***************************************************************************)
\* ml/features.py extract_time_features: pd.to_datetime without
\* errors="coerce".  The result is the time columns, or the exception.
extract_time_features(date) ==
    LET dt == ToDatetimeRaise(date)
    IN  IF dt = ParseFailure THEN Raised("ValueError")
        ELSE IF dt = NaT
        THEN Ok(<< <<"hour", NaN>>, <<"day_of_week", NaN>>,
                   <<"is_weekend", IF NaN >= 5 THEN 1 ELSE 0>> >>)
        ELSE Ok(<< <<"hour", dt.hour>>, <<"day_of_week", DayOfWeek(dt)>>,
                   <<"is_weekend", IF DayOfWeek(dt) >= 5 THEN 1 ELSE 0>> >>)

\* ml/features.py build_feature_dataframe: pd.concat([df, time_df], axis=1)
build_feature_dataframe(df) ==
    LET time_df == extract_time_features(Col(df, "date"))
    IN  IF time_df.status = "raised" THEN time_df
        ELSE Ok(df \o time_df.row)

\* ml/features.py add_text_features: two new columns, appended
add_text_features(df) ==
    df \o << <<"combined_text",
               StrLower(FillNa(Col(df, "merchant")) \o <<" ">>
                        \o FillNa(Col(df, "description")))>>,
             <<"merchant_text", StrLower(FillNa(Col(df, "merchant")))>> >>

FeatureColumns ==
    <<"combined_text", "merchant_text", "amount", "hour", "day_of_week",
      "is_weekend">>

\* ml/features.py get_feature_matrix_and_labels
get_feature_matrix_and_labels(df) ==
    [X |-> [i \in 1..Len(FeatureColumns) |->
               <<FeatureColumns[i], Col(df, FeatureColumns[i])>>],
     y |-> Col(df, "label")]

\* The raw one-row table, with the columns of ml/data.py's records.
RawTable(tx) ==
    << <<"date", tx.timestamp>>, <<"merchant", tx.merchant>>,
       <<"description", tx.description>>, <<"amount", tx.amount>>,
       <<"label", tx.label>> >>

\* train.py, steps 2: build_feature_dataframe, add_text_features,
\* get_feature_matrix_and_labels.
BatchDerive(tx) ==
    LET df_with_time == build_feature_dataframe(RawTable(tx))
    IN  IF df_with_time.status = "raised" THEN df_with_time
        ELSE Ok(get_feature_matrix_and_labels(
                    add_text_features(df_with_time.row)).X)

(***************************************************************************)
(* Inputs of the feature specification                                     *)
(***************************************************************************)
Tesco == <<"T","e","s","c","o">>

Groceries == <<"g","r","o","c","e","r","i","e","s">>

NotADate == <<"n","o","t","-","a","-","d","a","t","e">>

Merchants == {Tesco, <<"K","F","C">>, <<"b","p">>,
              <<"C","a","f","f","e"," ","N","e","r","o">>}

Descriptions == {Groceries, <<"P","A","Y","R","O","L","L"," ","B","A","C","S">>,
                 <<"f","e","e">>}

\* Amounts in hundredths: 43.00, -8.99, 0.00
Amounts == {4300, -899, 0}

ParseableTimestamps ==
    {DefaultIsoDatetime,
     <<"2","0","2","5","-","0","8","-","1","6","T","2","1",":","0","0",":","0","0">>,
     <<"2","0","2","5","-","0","8","-","2","0"," ","0","0",":","3","0",":","0","0">>,
     <<"2","0","2","5","-","0","8","-","1","8">>,
     <<"2","0","2","4","-","0","2","-","2","9","T","2","3",":","5","9",":","5","9">>}

\* Strings the parser rejects: free text, month 13, 30 February.
UnparseableTimestamps ==
    {NotADate, <<"n","/","a">>,
     <<"2","0","2","5","-","1","3","-","0","1","T","0","9",":","0","0",":","0","0">>,
     <<"2","0","2","5","-","0","2","-","3","0","T","1","0",":","0","0",":","0","0">>}

Timestamps == ParseableTimestamps \cup UnparseableTimestamps \cup {<<>>}

RawTransactions ==
    [merchant : Merchants, description : Descriptions, amount : Amounts,
     timestamp : Timestamps, label : {"Other"}]

NotRun == [status |-> "none"]

(***************************************************************************)
(* Specification of feature derivation                                     *)
(***************************************************************************)
ServeIdle ==
    /\ entry = "none"
    /\ modelFile = None
    /\ server = "created"
    /\ _pipeline = None
    /\ _class_names = None
    /\ httpReq = None
    /\ httpResp = None
    /\ cliArgs = None
    /\ cliOut = None

SynthIdle ==
    /\ rng = 0
    /\ otherDraws = 0
    /\ synthCalls = <<>>
    /\ amountOut = None

InitFeatures ==
    /\ raw \in RawTransactions
    /\ ServeIdle
    /\ SynthIdle
    /\ httpRow = NotRun
    /\ cliRow = NotRun
    /\ batchRow = NotRun

\* The HTTP service derives the request's feature row.
DeriveHttp ==
    /\ httpRow = NotRun
    /\ httpRow' = _build_feature_row(raw.merchant, raw.description,
                                     raw.amount, raw.timestamp)
    /\ UNCHANGED <<raw, cliRow, batchRow>>
    /\ UNCHANGED <<serveVars, synthVars>>

\* The command-line predictor derives the feature row of its arguments.
DeriveCli ==
    /\ cliRow = NotRun
    /\ cliRow' = build_feature_row(raw.merchant, raw.description,
                                   raw.amount, raw.timestamp)
    /\ UNCHANGED <<raw, httpRow, batchRow>>
    /\ UNCHANGED <<serveVars, synthVars>>

\* Training derives the features of the one-row table holding the record.
DeriveBatch ==
    /\ batchRow = NotRun
    /\ batchRow' = BatchDerive(raw)
    /\ UNCHANGED <<raw, httpRow, cliRow>>
    /\ UNCHANGED <<serveVars, synthVars>>

NextFeatures == DeriveHttp \/ DeriveCli \/ DeriveBatch

SpecFeatures == InitFeatures /\ [][NextFeatures]_vars

(***************************************************************************)
(* Artifacts and pipeline objects                                          *)
(***************************************************************************)
MaxClasses == 3

ProbScale == 10

MaxCliTopKExcess == 1

MaxTopK == 20

\* settings.py SETTINGS.categories
Categories ==
    <<"Groceries", "Transport", "Dining & Coffee", "Entertainment",
      "Bills & Utilities", "Health & Fitness", "Shopping", "Income", "Other">>

\* classes_ of a classifier fitted on all categories: np.unique of the
\* labels, which sorts them.
SortedCategories ==
    <<"Bills & Utilities", "Dining & Coffee", "Entertainment", "Groceries",
      "Health & Fitness", "Income", "Other", "Shopping", "Transport">>

RECURSIVE SumTo(_, _)
SumTo(v, n) == IF n = 0 THEN 0 ELSE v[n] + SumTo(v, n - 1)

\* Probability vectors over n classes, in units of 1/ProbScale.
ProbaVectors(n) ==
    {v \in [1..n -> 0..ProbScale] : SumTo(v, n) = ProbScale}

\* The output modelled for the classifier fitted on the full catalog.
CatalogProba == <<0, 1, 0, 2, 1, ProbScale - 7, 0, 2, 1>>

\* np.argmax: the first index holding the maximum.
ArgMax(v) ==
    CHOOSE i \in 1..Len(v) :
        /\ \A j \in 1..Len(v) : v[j] <= v[i]
        /\ \A j \in 1..(i - 1) : v[j] < v[i]

\* The shapes of object that load_model and get_class_names tell apart:
\* a Pipeline whose last step is named "classifier", a Pipeline without a
\* step of that name, and an estimator that is no Pipeline.
Shapes ==
    {[named_steps |-> TRUE,  classifier_step |-> TRUE],
     [named_steps |-> TRUE,  classifier_step |-> FALSE],
     [named_steps |-> FALSE, classifier_step |-> FALSE]}

Estimator(shape, fitted, has_proba, classes, proba, pred) ==
    [named_steps |-> shape.named_steps,
     classifier_step |-> shape.classifier_step,
     fitted |-> fitted, has_proba |-> has_proba,
     classes |-> classes, proba |-> proba, pred |-> pred]

\* ml/model.py build_pipeline, before fit.
UnfittedPipelines ==
    {Estimator(sh, FALSE, hp, <<>>, <<>>, 0) : sh \in Shapes, hp \in BOOLEAN}

ClassesOf(n) == SubSeq(SortedCategories, 1, n)

FittedProbaPipelines ==
    UNION {{Estimator(sh, TRUE, TRUE, ClassesOf(n), v, ArgMax(v)) :
               sh \in Shapes, v \in ProbaVectors(n)} : n \in 2..MaxClasses}

FittedLabelPipelines ==
    UNION {{Estimator(sh, TRUE, FALSE, ClassesOf(n), <<>>, i) :
               sh \in Shapes, i \in 1..n} : n \in 2..MaxClasses}

\* The pipeline train.py fits: all categories, logistic regression.
CatalogPipeline ==
    Estimator([named_steps |-> TRUE, classifier_step |-> TRUE], TRUE, TRUE,
              SortedCategories, CatalogProba, ArgMax(CatalogProba))

Pipelines ==
    UnfittedPipelines \cup FittedProbaPipelines \cup FittedLabelPipelines
        \cup {CatalogPipeline}

\* hasattr(pipeline, "named_steps") and "classifier" in pipeline.named_steps
HasClassifierStep(pipeline) ==
    pipeline.named_steps /\ pipeline.classifier_step

\* The label list train.py passes to save_artifacts: catalog order.
RECURSIVE CatalogOrder(_, _)
CatalogOrder(classes, i) ==
    IF i > Len(Categories) THEN <<>>
    ELSE (IF \E j \in 1..Len(classes) : classes[j] = Categories[i]
          THEN <<Categories[i]>> ELSE <<>>) \o CatalogOrder(classes, i + 1)

\* ml/io.py save_artifacts: the pickled dict.
save_artifacts(pipeline, labels) ==
    [kind |-> "dict", pipeline |-> pipeline, labels |-> labels]

\* A pickle that holds the estimator object itself.
BarePayload(object) == [kind |-> "bare", object |-> object]

Missing == [kind |-> "missing"]

\* What the model path can hold: the dict train.py saves (a Pipeline with a
\* "classifier" step and the label list), a pickled estimator, or nothing.
ModelFiles ==
    {save_artifacts(p, CatalogOrder(p.classes, 1)) :
        p \in {q \in Pipelines : HasClassifierStep(q)}}
        \cup {BarePayload(p) : p \in Pipelines \ {CatalogPipeline}}
        \cup {Missing}

\* payload["pipeline"] if isinstance(payload, dict) and "pipeline" in
\* payload else payload
PayloadPipeline(payload) ==
    IF payload.kind = "dict" /\ "pipeline" \in DOMAIN payload
    THEN payload["pipeline"] ELSE payload.object

\* hasattr(x, "classes_"): the attribute exists once the classifier is fitted.
HasClasses(pipeline) == pipeline.fitted

\* hasattr(pipeline, "predict_proba")
HasPredictProba(pipeline) == pipeline.has_proba

NotFittedError == Raised("NotFittedError")

\* pipeline.predict_proba(X)[0]
PredictProba(pipeline, X) ==
    IF ~pipeline.fitted THEN NotFittedError ELSE Ok(pipeline.proba)

\* pipeline.predict(X)[0]
PredictLabel(pipeline, X) ==
    IF ~pipeline.fitted THEN NotFittedError
    ELSE Ok(pipeline.classes[pipeline.pred])

(***************************************************************************)
(* The ranker                                                              *)
(***************************************************************************)
Min(a, b) == IF a <= b THEN a ELSE b

Max(a, b) == IF a >= b THEN a ELSE b

\* ndarray.argsort(): the orders of the indices S that sort v ascending.
\* The default sort kind is not stable, so equal values come in any order.
RECURSIVE AscendingOrders(_, _)
AscendingOrders(v, S) ==
    IF S = {} THEN {<<>>}
    ELSE UNION {{<<i>> \o rest : rest \in AscendingOrders(v, S \ {i})} :
                   i \in {m \in S : \A j \in S : v[m] <= v[j]}}

ArgSort(v) == AscendingOrders(v, 1..Len(v))

\* seq[::-1]
NotReversed(seq) == seq

Reversed(seq) == [i \in 1..Len(seq) |-> seq[Len(seq) + 1 - i]]

\* seq[:k], with Python's meaning of a negative k
SliceTo(seq, k) ==
    SubSeq(seq, 1, IF k >= 0 THEN Min(k, Len(seq)) ELSE Max(Len(seq) + k, 0))

\* bool(x) of a list or None
Truthy(list) == list # None /\ Len(list) > 0

\* str(class_names[i]) if class_names else str(i); i is the 1-based index
\* of the model, str(i) the 0-based index of the code.
CategoryOf(class_names, i) ==
    IF Truthy(class_names) THEN class_names[i] ELSE ToString(i - 1)

TopKItemsUnsliced(proba, order, k, class_names) ==
    [j \in 1..Len(order) |->
        [category |-> CategoryOf(class_names, order[j]),
         probability |-> proba[order[j]]]]

\* TopKItem(category=..., probability=float(proba[i])) for i in order[:k]
TopKItems(proba, order, k, class_names) ==
    LET head == SliceTo(order, k)
    IN  [j \in 1..Len(head) |->
            [category |-> CategoryOf(class_names, head[j]),
             probability |-> proba[head[j]]]]

\* The rankings the code can produce: order = proba.argsort()[::-1],
\* k = min(topk, len(proba)).
Rankings(proba, topk, class_names) ==
    {TopKItems(proba, Reversed(order), Min(topk, Len(proba)), class_names) :
        order \in ArgSort(proba)}

(***************************************************************************)
(* app/main.py: the HTTP service                                           *)
(***************************************************************************)
Some(x) == [kind |-> "Some", value |-> x]

\* The two serving transactions: the spec's example, and the same with a
\* timestamp that does not parse.  Both have the same feature row.
ServeTransactions ==
    {[merchant |-> Tesco, description |-> Groceries, amount |-> 4300,
      iso_datetime |-> ts] : ts \in {DefaultIsoDatetime, NotADate}}

\* Requests as the handler receives them, after validation: TopK is
\* Field(ge=1, le=20).
HttpRequests ==
    {[merchant |-> t.merchant, description |-> t.description,
      amount |-> t.amount, iso_datetime |-> t.iso_datetime, topk |-> k] :
        t \in ServeTransactions, k \in 1..MaxTopK}

\* str.strip(): leading and trailing blanks removed.
RECURSIVE StripWhitespace(_)
StripWhitespace(s) ==
    IF s = <<>> THEN s
    ELSE IF Head(s) = " " THEN StripWhitespace(Tail(s))
    ELSE IF s[Len(s)] = " " THEN StripWhitespace(SubSeq(s, 1, Len(s) - 1))
    ELSE s

DefaultTopK == 3

MinTopK == 1

ValidationStatus == 422

\* Request bodies as they arrive, before validation: the requests above,
\* the example with blanks around the merchant, with a topk outside
\* 1..20, and with a merchant or description that is empty or blank.
RawHttpRequests ==
    HttpRequests
    \cup {[merchant |-> m, description |-> d, amount |-> 4300,
           iso_datetime |-> DefaultIsoDatetime, topk |-> DefaultTopK] :
             m \in {<<" ">> \o Tesco \o <<" ">>, <<>>, <<" ">>, Tesco},
             d \in {Groceries, <<>>}}
    \cup {[merchant |-> Tesco, description |-> Groceries, amount |-> 4300,
           iso_datetime |-> DefaultIsoDatetime, topk |-> k] :
             k \in ((0 - MaxCliTopKExcess)..0)
                   \cup ((MaxTopK + 1)..(MaxTopK + MaxCliTopKExcess))}

\* The fields of a body that fail PredictRequest's constraints: NonEmptyStr
\* is stripped and then min_length=1, TopK is ge=1, le=20.
FieldErrors(body) ==
    {f \in {"merchant", "description"} : Len(StripWhitespace(body[f])) < 1}
    \cup (IF body.topk < MinTopK \/ body.topk > MaxTopK THEN {"topk"}
          ELSE {})

\* The model PredictRequest built from a body that passes validation.
PredictRequest(body) ==
    [merchant |-> StripWhitespace(body.merchant),
     description |-> StripWhitespace(body.description),
     amount |-> body.amount, iso_datetime |-> body.iso_datetime,
     topk |-> body.topk]

\* The class names load_model caches.
LoadedClassNames(pipeline) ==
    IF HasClassifierStep(pipeline)
    THEN (IF HasClasses(pipeline) THEN pipeline.classes ELSE None)
    ELSE IF HasClasses(pipeline) THEN pipeline.classes
    ELSE None

HealthzAlwaysLoaded(pipeline) == TRUE

\* bool(_pipeline): None is false; an estimator, or a Pipeline with steps,
\* is true.
BoolOfPipeline(pipeline) == pipeline # None

HttpResponse(route, status, body) ==
    [route |-> route, status |-> status, body |-> body]

\* The framework's answer to a body that fails validation; the route
\* function is not called.
RequestValidationError(body) ==
    HttpResponse("/predict", ValidationStatus,
                 [detail |-> FieldErrors(body)])

\* raise HTTPException(status_code, detail)
HTTPException(status, detail) ==
    HttpResponse("/predict", status, [detail |-> detail])

\* An exception no handler of the route catches: the framework answers 500.
UnhandledInRoute(error) ==
    HttpResponse("/predict", 500,
                 [detail |-> "Internal Server Error", exception |-> error])

NotLoadedDetail == "Model is not loaded"

NotFittedDetail == "Model is not fitted. Rebuild the image to retrain the model (docker compose build --no-cache)."

NotLoadedStatus == 500

NotFittedStatus == 503

\* response_model_exclude_none=True: the fields that are None are dropped.
ExcludeNone(model) ==
    LET keep == {f \in DOMAIN model : model[f] # None}
    IN  [f \in keep |-> model[f].value]

\* PredictResponse(input=..., top1=..., topk=..., prediction=...)
PredictResponse(input, top1, topk, prediction) ==
    [input |-> input, top1 |-> top1, topk |-> topk,
     prediction |-> prediction]

RankedBothShapes(req, items) ==
    IF Len(items) = 0 THEN UnhandledInRoute("IndexError")
    ELSE HttpResponse("/predict", 200,
             ExcludeNone(PredictResponse(Some(req), Some(items[1]),
                                         Some(items),
                                         Some(items[1].category))))

\* return PredictResponse(input=req, top1=items[0], topk=items)
RankedResponse(req, items) ==
    IF Len(items) = 0 THEN UnhandledInRoute("IndexError")
    ELSE HttpResponse("/predict", 200,
             ExcludeNone(PredictResponse(Some(req), Some(items[1]),
                                         Some(items), None)))

\* return PredictResponse(input=req, prediction=str(label))
LabelResponse(req, label) ==
    HttpResponse("/predict", 200,
        ExcludeNone(PredictResponse(Some(req), None, None, Some(label))))

\* The route function predict: the responses it can give to req.
predict(pipeline, class_names, req) ==
    IF pipeline = None THEN {HTTPException(NotLoadedStatus, NotLoadedDetail)}
    ELSE
      LET X == _build_feature_row(req.merchant, req.description, req.amount,
                                  req.iso_datetime)
      IN  IF X.status = "raised" THEN {UnhandledInRoute(X.error)}
          ELSE IF HasPredictProba(pipeline)
          THEN LET proba == PredictProba(pipeline, X.row)
               IN  IF proba.status = "raised"
                   THEN {HTTPException(NotFittedStatus, NotFittedDetail)}
                   ELSE {RankedResponse(req, items) :
                            items \in Rankings(proba.row, req.topk,
                                               class_names)}
          ELSE LET label == PredictLabel(pipeline, X.row)
               IN  IF label.status = "raised"
                   THEN {HTTPException(NotFittedStatus, NotFittedDetail)}
                   ELSE {LabelResponse(req, label.row)}

\* The route function healthz.
healthz(pipeline) ==
    HttpResponse("/healthz", 200,
                 [status |-> "ok", model_loaded |-> BoolOfPipeline(pipeline),
                  model_path |-> "model.pkl"])

(***************************************************************************)
(* predict.py: the command-line predictor                                  *)
(***************************************************************************)
\* argparse: --topk is type=int, with no range.
CliArgs ==
    {[merchant |-> t.merchant, description |-> t.description,
      amount |-> t.amount, iso_datetime |-> t.iso_datetime, topk |-> k] :
        t \in ServeTransactions,
        k \in (0 - MaxCliTopKExcess)..(MaxTopK + MaxCliTopKExcess)}
    \cup {[merchant |-> m, description |-> d, amount |-> 4300,
           iso_datetime |-> DefaultIsoDatetime, topk |-> DefaultTopK] :
             m \in {<<>>, Tesco}, d \in {Groceries, <<>>}}

\* predict.py get_class_names
get_class_names(pipeline) ==
    IF HasClassifierStep(pipeline)
    THEN (IF HasClasses(pipeline) THEN pipeline.classes ELSE None)
    ELSE None

\* An exception that leaves main(): the traceback, nothing printed.
Traceback(error) == [exit |-> "traceback", error |-> error]

\* print(json.dumps(result))
Printed(result) == [exit |-> "ok", stdout |-> result]

CliInput(args) ==
    [merchant |-> args.merchant, description |-> args.description,
     amount |-> PyFloat(args.amount), date |-> args.iso_datetime]

\* result = {"input": ..., "top1": topk[0], "topk": topk}
CliRanked(args, topk) ==
    IF Len(topk) = 0 THEN Traceback("IndexError")
    ELSE Printed([input |-> CliInput(args), top1 |-> topk[1], topk |-> topk])

\* predict.py main: the ways the run can end.
main(file, args) ==
    IF file = Missing THEN {Traceback("FileNotFoundError")}
    ELSE
      LET pipeline == PayloadPipeline(file)
          class_names == get_class_names(pipeline)
          features_row == build_feature_row(args.merchant, args.description,
                                            args.amount, args.iso_datetime)
      IN  IF features_row.status = "raised"
          THEN {Traceback(features_row.error)}
          ELSE IF HasPredictProba(pipeline)
          THEN LET proba == PredictProba(pipeline, features_row.row)
               IN  IF proba.status = "raised" THEN {Traceback(proba.error)}
                   ELSE {CliRanked(args, topk) :
                            topk \in Rankings(proba.row, args.topk,
                                              class_names)}
          ELSE LET pred == PredictLabel(pipeline, features_row.row)
               IN  IF pred.status = "raised" THEN {Traceback(pred.error)}
                   ELSE {Printed([input |-> CliInput(args),
                                  prediction |-> pred.row])}

(***************************************************************************)
(* Specification of inference: one run of the service or of the CLI        *)
(***************************************************************************)
FeaturesIdle ==
    /\ raw = None
    /\ httpRow = NotRun
    /\ cliRow = NotRun
    /\ batchRow = NotRun

Init ==
    /\ FeaturesIdle
    /\ SynthIdle
    /\ entry \in {"http", "cli"}
    /\ modelFile \in ModelFiles
    /\ server = "created"
    /\ _pipeline = None
    /\ _class_names = None
    /\ httpReq = None
    /\ httpResp = None
    /\ cliArgs = None
    /\ cliOut = None

\* The startup handler load_model.  A file that cannot be opened raises,
\* and the service does not start.
LoadModel ==
    /\ entry = "http"
    /\ server = "created"
    /\ \/ /\ modelFile = Missing
          /\ server' = "exited"
          /\ UNCHANGED <<_pipeline, _class_names>>
       \/ /\ modelFile # Missing
          /\ _pipeline' = PayloadPipeline(modelFile)
          /\ _class_names' = LoadedClassNames(PayloadPipeline(modelFile))
          /\ server' = "serving"
    /\ UNCHANGED <<entry, modelFile, httpReq, httpResp, cliArgs, cliOut>>
    /\ UNCHANGED <<featVars, synthVars>>

\* GET /healthz
Healthz ==
    /\ entry = "http"
    /\ server # "exited"
    /\ httpResp = None
    /\ httpResp' = healthz(_pipeline)
    /\ UNCHANGED httpReq
    /\ UNCHANGED <<entry, modelFile, server, _pipeline, _class_names, cliArgs,
                   cliOut>>
    /\ UNCHANGED <<featVars, synthVars>>

\* POST /predict
Predict ==
    /\ entry = "http"
    /\ server # "exited"
    /\ httpResp = None
    /\ \E body \in RawHttpRequests :
          /\ httpReq' = body
          /\ IF FieldErrors(body) # {}
             THEN httpResp' = RequestValidationError(body)
             ELSE httpResp' \in predict(_pipeline, _class_names,
                                        PredictRequest(body))
    /\ UNCHANGED <<entry, modelFile, server, _pipeline, _class_names, cliArgs,
                   cliOut>>
    /\ UNCHANGED <<featVars, synthVars>>

\* The response has been sent; the service waits for the next request.
Respond ==
    /\ entry = "http"
    /\ httpResp # None
    /\ httpResp' = None
    /\ httpReq' = None
    /\ UNCHANGED <<entry, modelFile, server, _pipeline, _class_names, cliArgs,
                   cliOut>>
    /\ UNCHANGED <<featVars, synthVars>>

\* python predict.py ...
CliMain ==
    /\ entry = "cli"
    /\ cliOut = None
    /\ \E args \in CliArgs :
          /\ cliArgs' = args
          /\ cliOut' \in main(modelFile, args)
    /\ UNCHANGED <<entry, modelFile, server, _pipeline, _class_names,
                   httpReq, httpResp>>
    /\ UNCHANGED <<featVars, synthVars>>

Next == LoadModel \/ Healthz \/ Predict \/ Respond \/ CliMain

Spec == Init /\ [][Next]_vars

(***************************************************************************)
(* settings.py: the configuration the generator reads                      *)
(***************************************************************************)
Vocab(category) ==
    CASE category = "Groceries" ->
           [merchants |-> <<"Tesco", "Sainsbury's", "ALDI", "LIDL", "ASDA",
                            "Co-op", "Morrisons">>,
            desc |-> <<"groceries", "weekly shop", "food basket",
                       "fresh produce">>]
      [] category = "Transport" ->
           [merchants |-> <<"Uber", "Bolt", "ScotRail", "TFL", "Shell", "BP",
                            "Stagecoach">>,
            desc |-> <<"ride home", "bus ticket", "train to work", "petrol",
                       "diesel">>]
      [] category = "Dining & Coffee" ->
           [merchants |-> <<"Starbucks", "Costa", "Caffe Nero", "KFC",
                            "McDonalds", "Dominos">>,
            desc |-> <<"morning latte", "burger meal", "pizza deal",
                       "americano", "lunch">>]
      [] category = "Entertainment" ->
           [merchants |-> <<"Netflix", "Spotify", "Steam", "Cineworld",
                            "Disney+">>,
            desc |-> <<"subscription", "movie ticket", "monthly sub",
                       "premium plan">>]
      [] category = "Bills & Utilities" ->
           [merchants |-> <<"Vodafone", "O2", "EE", "BT", "British Gas",
                            "Octopus Energy">>,
            desc |-> <<"mobile bill", "broadband", "energy bill",
                       "council tax">>]
      [] category = "Health & Fitness" ->
           [merchants |-> <<"Boots", "NHS", "PureGym", "The Gym Group",
                            "Holland & Barrett">>,
            desc |-> <<"pharmacy", "gym membership", "vitamins",
                       "healthcare">>]
      [] category = "Shopping" ->
           [merchants |-> <<"Amazon", "eBay", "Argos", "Currys", "Primark",
                            "IKEA">>,
            desc |-> <<"online order", "charger", "home goods", "t-shirt",
                       "accessories">>]
      [] category = "Income" ->
           [merchants |-> <<"Payroll", "ACME LTD", "Company Ltd",
                            "Employer Ltd", "HSBC">>,
            desc |-> <<"monthly salary", "PAYROLL BACS CREDIT", "wage",
                       "payslip">>]
      [] category = "Other" ->
           [merchants |-> <<"Local Market", "HSBC", "Barclays", "NatWest",
                            "Halifax", "Monzo">>,
            desc |-> <<"card payment", "transfer", "fee", "charge",
                       "misc purchase">>]

\* AmountSpec(low, high, sign): __post_init__ raises when low > high.
AmountSpec(low, high, sign) ==
    IF low > high THEN Raised("ValueError")
    ELSE [low |-> low, high |-> high, sign |-> sign]

\* SETTINGS.amounts: the categories with a spec of their own
AmountCategories ==
    {"Groceries", "Transport", "Dining & Coffee", "Entertainment",
     "Bills & Utilities", "Health & Fitness", "Shopping", "Income"}

SettingsAmounts(category) ==
    CASE category = "Groceries"         -> AmountSpec(8, 120, -1)
      [] category = "Transport"         -> AmountSpec(3, 70, -1)
      [] category = "Dining & Coffee"   -> AmountSpec(2, 30, -1)
      [] category = "Entertainment"     -> AmountSpec(4, 20, -1)
      [] category = "Bills & Utilities" -> AmountSpec(20, 500, -1)
      [] category = "Health & Fitness"  -> AmountSpec(3, 120, -1)
      [] category = "Shopping"          -> AmountSpec(5, 500, -1)
      [] category = "Income"            -> AmountSpec(800, 2500, 1)

DefaultAmount == AmountSpec(1, 80, -1)

DefaultNdigits == 2

BaseDate ==
    [kind |-> "Timestamp", year |-> 2025, month |-> 8, day |-> 15,
     hour |-> 0, minute |-> 0, second |-> 0]

HourChoiceCategories == {"Transport", "Dining & Coffee", "Entertainment"}

HourChoices(category) ==
    CASE category = "Transport"       -> <<7, 8, 9, 22, 23, 0, 1>>
      [] category = "Dining & Coffee" -> <<8, 12, 13, 18, 19>>
      [] category = "Entertainment"   -> <<19, 20, 21, 22>>

DefaultHourRange == <<8, 21>>

DayOffsetRange == <<0, 13>>

SettingsSeed == 42

(***************************************************************************)
(* The random source                                                       *)
(***************************************************************************)
\* The module-level generator of `random`, modelled as a linear
\* congruential generator: every draw advances the state, and the value
\* drawn is a function of the new state.
RngModulus == 8191

RngMultiplier == 75

RngIncrement == 74

NextRng(state) == (RngMultiplier * state + RngIncrement) % RngModulus

SeedKeepsState(state, seed) == state

\* random.seed(seed): the state becomes a function of the seed alone.
SeedRandom(state, seed) == (seed * seed + seed + 1) % RngModulus

\* random.choice(seq) and random.randint(0, n - 1): one draw below n
RandBelow(state, n) ==
    [rng |-> NextRng(state), value |-> NextRng(state) % n]

\* random.choice(seq)
RandChoice(state, seq) ==
    LET d == RandBelow(state, Len(seq))
    IN  [rng |-> d.rng, value |-> seq[d.value + 1]]

\* random.randint(a, b), a <= b
RandInt(state, a, b) ==
    LET d == RandBelow(state, b - a + 1)
    IN  [rng |-> d.rng, value |-> a + d.value]

RECURSIVE Pow10(_)
Pow10(n) == IF n = 0 THEN 1 ELSE 10 * Pow10(n - 1)

\* round(sign * random.uniform(lo, hi), decimal_places), in units of
\* 10^-decimal_places: lo + (hi - lo) * u for the draw u in [0, 1), rounded.
RoundedUniform(state, lo, hi, decimal_places, sign) ==
    LET next  == NextRng(state)
        unit  == Pow10(decimal_places)
        span  == (hi - lo) * unit
        steps == (span * next + RngModulus \div 2) \div RngModulus
    IN  [rng |-> next, value |-> sign * (lo * unit + steps)]

(***************************************************************************)
(* utils/amount.py                                                         *)
(***************************************************************************)
\* The sampler without the sign.
ChooseUnsignedAmount(state, lower_bound, upper_bound, decimal_places, sign) ==
    LET places == IF decimal_places = None THEN DefaultNdigits
                  ELSE decimal_places.value
        r      == RoundedUniform(state, Min(lower_bound, upper_bound),
                                 Max(lower_bound, upper_bound), places, 1)
    IN  IF places < 0
        THEN [rng |-> state, value |-> Raised("ValueError"), raised |-> TRUE]
        ELSE [rng |-> r.rng, value |-> r.value, raised |-> FALSE]

\* choose_random_amount: the amount, or ValueError without a draw
choose_random_amount(state, lower_bound, upper_bound, decimal_places, sign) ==
    LET places == IF decimal_places = None THEN DefaultNdigits
                  ELSE decimal_places.value
    IN  IF places < 0
        THEN [rng |-> state, value |-> Raised("ValueError"), raised |-> TRUE]
        ELSE LET lo == IF lower_bound > upper_bound THEN upper_bound
                       ELSE lower_bound
                 hi == IF lower_bound > upper_bound THEN lower_bound
                       ELSE upper_bound
                 r  == RoundedUniform(state, lo, hi, places, sign)
             IN  [rng |-> r.rng, value |-> r.value, raised |-> FALSE]

\* SETTINGS.amounts.get(category, SETTINGS.default_amount)
get_amount_spec(category) ==
    IF category \in AmountCategories THEN SettingsAmounts(category)
    ELSE DefaultAmount

rand_amount(state, category, decimal_places) ==
    LET spec == get_amount_spec(category)
    IN  choose_random_amount(state, spec.low, spec.high, decimal_places,
                             spec.sign)

(***************************************************************************)
(* utils/date_and_time.py                                                  *)
(***************************************************************************)
\* choose_random_hour(hours): one of a sequence of hours
choose_random_hour_of(state, hours) ==
    IF Len(hours) = 0 THEN [rng |-> state, value |-> Raised("ValueError")]
    ELSE LET c == RandChoice(state, hours)
         IN  IF c.value \in 0..23 THEN c
             ELSE [rng |-> c.rng, value |-> Raised("ValueError")]

\* choose_random_hour(start, end): an hour of an inclusive range
choose_random_hour_in(state, start_inclusive, end_inclusive) ==
    LET start == Min(start_inclusive, end_inclusive)
        end   == Max(start_inclusive, end_inclusive)
        c     == RandInt(state, start, end)
    IN  IF c.value \in 0..23 THEN c
        ELSE [rng |-> c.rng, value |-> Raised("ValueError")]

choose_random_day(state, start_day_offset_inclusive, end_day_offset_inclusive) ==
    RandInt(state, Min(start_day_offset_inclusive, end_day_offset_inclusive),
            Max(start_day_offset_inclusive, end_day_offset_inclusive))

\* A date moved forward by whole days, month and year ends carried.
RECURSIVE AddDays(_, _)
AddDays(dt, days) ==
    IF days = 0 THEN dt
    ELSE IF dt.day < DaysInMonth(dt.year, dt.month)
    THEN AddDays([dt EXCEPT !.day = @ + 1], days - 1)
    ELSE IF dt.month < 12
    THEN AddDays([dt EXCEPT !.day = 1, !.month = @ + 1], days - 1)
    ELSE AddDays([dt EXCEPT !.day = 1, !.month = 1, !.year = @ + 1], days - 1)

\* start_datetime + timedelta(days=days_offset, hours=hours_offset), for
\* offsets that are not negative
use_date_offset(start_datetime, days_offset, hours_offset) ==
    LET hours == start_datetime.hour + hours_offset
    IN  AddDays([start_datetime EXCEPT !.hour = hours % 24],
                days_offset + hours \div 24)

Fmt2(n) == <<Digits[(n \div 10) + 1], Digits[(n % 10) + 1]>>

Fmt4(n) == Fmt2(n \div 100) \o Fmt2(n % 100)

\* datetime.isoformat(timespec="seconds")
IsoFormat(dt) ==
    Fmt4(dt.year) \o <<"-">> \o Fmt2(dt.month) \o <<"-">> \o Fmt2(dt.day)
        \o <<"T">> \o Fmt2(dt.hour) \o <<":">> \o Fmt2(dt.minute)
        \o <<":">> \o Fmt2(dt.second)

\* rand_time(category): the hour is drawn first, then the day offset
rand_time(state, category) ==
    LET h == IF category \in HourChoiceCategories
             THEN choose_random_hour_of(state, HourChoices(category))
             ELSE choose_random_hour_in(state, DefaultHourRange[1],
                                        DefaultHourRange[2])
        d == choose_random_day(h.rng, DayOffsetRange[1], DayOffsetRange[2])
    IN  [rng |-> d.rng,
         value |-> IsoFormat(use_date_offset(BaseDate, d.value, h.value))]

(***************************************************************************)
(* ml/data.py: the synthetic transaction generator                         *)
(***************************************************************************)
MaxSamples == 1

MaxOtherDraws == 2

Record(date, merchant, description, amount, label) ==
    [date |-> date, merchant |-> merchant, description |-> description,
     amount |-> amount, label |-> label]

\* synthesize_rows_for_category: merchant, description, date (hour, day),
\* amount are drawn in this order for each row.
RECURSIVE synthesize_rows_for_category(_, _, _)
synthesize_rows_for_category(state, category, rows_count) ==
    IF rows_count <= 0 THEN [rng |-> state, value |-> <<>>]
    ELSE LET merchant    == RandChoice(state, Vocab(category).merchants)
             description == RandChoice(merchant.rng, Vocab(category).desc)
             date        == rand_time(description.rng, category)
             amount      == rand_amount(date.rng, category, None)
             rest        == synthesize_rows_for_category(amount.rng, category,
                                                         rows_count - 1)
         IN  [value |-> <<Record(date.value, merchant.value,
                                 description.value, amount.value, category)>>
                        \o rest.value,
              rng |-> rest.rng]

\* overrides.get(category, default_samples_per_category)
OverridesGet(overrides, category, default) ==
    IF category \in DOMAIN overrides THEN overrides[category] ELSE default

\* The loop over SETTINGS.categories, from the i-th category on.
RECURSIVE CategoryBlocks(_, _, _, _)
CategoryBlocks(state, i, default_samples_per_category, overrides) ==
    IF i > Len(Categories) THEN [rng |-> state, value |-> <<>>]
    ELSE LET n    == OverridesGet(overrides, Categories[i],
                                  default_samples_per_category)
             rows == synthesize_rows_for_category(state, Categories[i], n)
             rest == CategoryBlocks(rows.rng, i + 1,
                                    default_samples_per_category, overrides)
         IN  [value |-> rows.value \o rest.value, rng |-> rest.rng]

\* The hand-written records with a label outside the catalog.
ExtraRecordsUnknown(state) ==
    LET d1 == rand_time(state, "Income")
        d2 == rand_time(d1.rng, "Entertainment")
        d3 == rand_time(d2.rng, "Transport")
        d4 == rand_time(d3.rng, "Other")
    IN  [value |->
            <<Record(d1.value, "HSBC", "PAYROLL BACS CREDIT", -135000,
                     "Income"),
              Record(d2.value, "STREAMIO", "monthly subscription", 899,
                     "Entertainment"),
              Record(d3.value, "QuickRide", "late night ride", 1120,
                     "Transport"),
              Record(d4.value, "HSBC", "card payment", 2499, "Unknown")>>,
         rng |-> d4.rng]

\* The four hand-written records appended after the category blocks;
\* amounts in hundredths.
ExtraRecords(state) ==
    LET d1 == rand_time(state, "Income")
        d2 == rand_time(d1.rng, "Entertainment")
        d3 == rand_time(d2.rng, "Transport")
        d4 == rand_time(d3.rng, "Other")
    IN  [value |->
            <<Record(d1.value, "HSBC", "PAYROLL BACS CREDIT", -135000,
                     "Income"),
              Record(d2.value, "STREAMIO", "monthly subscription", 899,
                     "Entertainment"),
              Record(d3.value, "QuickRide", "late night ride", 1120,
                     "Transport"),
              Record(d4.value, "HSBC", "card payment", 2499, "Other")>>,
         rng |-> d4.rng]

\* synthesize_dataset(default_samples_per_category, per_category_overrides,
\* seed): the records returned and the state the random source is left in.
synthesize_dataset(state, default_samples_per_category, per_category_overrides, seed) ==
    LET seeded == IF seed # None THEN SeedRandom(state, seed.value)
                  ELSE state
        blocks == CategoryBlocks(seeded, 1, default_samples_per_category,
                                 per_category_overrides)
        extras == ExtraRecords(blocks.rng)
    IN  [value |-> blocks.value \o extras.value, rng |-> extras.rng]

(***************************************************************************)
(* Specification of the generator: two calls of synthesize_dataset in one  *)
(* process, with other users of the random source in between               *)
(***************************************************************************)
\* The random source is seeded from the system when the process starts.
StartRngStates == {0, 4242}

Seeds == {None, Some(SettingsSeed), Some(7)}

EmptyOverrides == [c \in {} |-> 0]

\* per_category_overrides: none, train.py's {"Other": 50} scaled down, and
\* a map that raises one category, empties another and has a key that is no
\* category.
OverrideMaps ==
    {EmptyOverrides,
     [c \in {"Other"} |-> 1],
     [c \in {"Income", "Groceries", "Lottery"} |->
         IF c = "Groceries" THEN 0 ELSE 2]}

SynthArgs ==
    [default_samples_per_category : 0..MaxSamples,
     per_category_overrides : OverrideMaps,
     seed : Seeds]

InitSynth ==
    /\ FeaturesIdle
    /\ ServeIdle
    /\ rng \in StartRngStates
    /\ otherDraws = 0
    /\ synthCalls = <<>>
    /\ amountOut = None

\* Another caller draws from the shared random source.
OtherDraw ==
    /\ otherDraws < MaxOtherDraws
    /\ rng' = NextRng(rng)
    /\ otherDraws' = otherDraws + 1
    /\ UNCHANGED <<synthCalls, amountOut>>
    /\ UNCHANGED <<featVars, serveVars>>

\* A call of synthesize_dataset.  The second call is made with the first
\* call's arguments or with others.
Synthesize ==
    /\ Len(synthCalls) < 2
    /\ \E args \in SynthArgs :
          LET res == synthesize_dataset(rng, args.default_samples_per_category,
                                        args.per_category_overrides, args.seed)
          IN  /\ rng' = res.rng
              /\ synthCalls' = Append(synthCalls,
                                      [args |-> args, rows |-> res.value])
    /\ UNCHANGED <<otherDraws, amountOut>>
    /\ UNCHANGED <<featVars, serveVars>>

NextSynth == OtherDraw \/ Synthesize

SpecSynth == InitSynth /\ [][NextSynth]_vars

(***************************************************************************)
(* Specification of the amount sampler: one call of AmountSpec, of         *)
(* choose_random_amount or of rand_amount, from any state of the random    *)
(* source                                                                  *)
(***************************************************************************)
RngStates == 0..(RngModulus - 1)

\* Bounds passed to AmountSpec and to choose_random_amount: the default
\* spec's.
BoundValues == {DefaultAmount.low, DefaultAmount.high}

Signs == {-1, 1}

\* decimal_places as rand_amount is called: not given, or 0, 1 or 2.
DecimalPlaces == {None} \cup {Some(n) : n \in 0..DefaultNdigits}

\* decimal_places as choose_random_amount is called: also negative.
SamplerDecimalPlaces == {None, Some(0), Some(-1)}

\* The categories rand_amount is called with: the catalog's, and one that
\* settings.py does not know.
AmountCallCategories ==
    {Categories[i] : i \in 1..Len(Categories)} \cup {"Lottery"}

AmountCall(fn, args, result) ==
    [fn |-> fn, args |-> args, result |-> result, rngBefore |-> rng]

\* What a call of the sampler returned or raised.
Outcome(res) == IF res.raised THEN res.value ELSE Ok(res.value)

InitAmount ==
    /\ FeaturesIdle
    /\ ServeIdle
    /\ rng \in RngStates
    /\ otherDraws = 0
    /\ synthCalls = <<>>
    /\ amountOut = None

\* AmountSpec(low, high, sign)
MakeAmountSpec ==
    /\ amountOut = None
    /\ \E low \in BoundValues, high \in BoundValues, sign \in Signs :
          amountOut' = AmountCall("AmountSpec",
                                  [low |-> low, high |-> high, sign |-> sign],
                                  AmountSpec(low, high, sign))
    /\ UNCHANGED <<rng, otherDraws, synthCalls>>
    /\ UNCHANGED <<featVars, serveVars>>

\* choose_random_amount(lower_bound, upper_bound, decimal_places, sign=sign)
ChooseRandomAmount ==
    /\ amountOut = None
    /\ \E lower_bound \in BoundValues, upper_bound \in BoundValues,
          decimal_places \in SamplerDecimalPlaces, sign \in Signs :
          LET res == choose_random_amount(rng, lower_bound, upper_bound,
                                          decimal_places, sign)
          IN  /\ rng' = res.rng
              /\ amountOut' =
                    AmountCall("choose_random_amount",
                               [lower_bound |-> lower_bound,
                                upper_bound |-> upper_bound,
                                decimal_places |-> decimal_places,
                                sign |-> sign],
                               Outcome(res))
    /\ UNCHANGED <<otherDraws, synthCalls>>
    /\ UNCHANGED <<featVars, serveVars>>

\* rand_amount(category, decimal_places)
RandAmount ==
    /\ amountOut = None
    /\ \E category \in AmountCallCategories,
          decimal_places \in DecimalPlaces :
          LET res == rand_amount(rng, category, decimal_places)
          IN  /\ rng' = res.rng
              /\ amountOut' =
                    AmountCall("rand_amount",
                               [category |-> category,
                                decimal_places |-> decimal_places],
                               Outcome(res))
    /\ UNCHANGED <<otherDraws, synthCalls>>
    /\ UNCHANGED <<featVars, serveVars>>

NextAmount == MakeAmountSpec \/ ChooseRandomAmount \/ RandAmount

SpecAmount == InitAmount /\ [][NextAmount]_vars

(***************************************************************************)
(* Claims on feature derivation (SpecFeatures)                             *)
(***************************************************************************)
Unparseable(s) == ParseIso(s) = ParseFailure

TimeOf(res) ==
    <<Col(res.row, "hour"), Col(res.row, "day_of_week"),
      Col(res.row, "is_weekend")>>

\* C1 (as claimed): the serving derivations and the batch derivation of the
\* same raw transaction give the same result: the same six columns in the
\* same order with equal values, and none fails where another succeeds.
C1_TrainServeIdentity ==
    /\ (httpRow # NotRun /\ batchRow # NotRun) => httpRow = batchRow
    /\ (cliRow # NotRun /\ batchRow # NotRun) => cliRow = batchRow

\* C2: on a timestamp string that does not parse, neither serving
\* derivation raises, and hour, day_of_week and is_weekend are 9, 6 and 1,
\* the values derived from the default timestamp 2025-08-24T09:00:00.
C2_TimestampFallback ==
    Unparseable(raw.timestamp) =>
        /\ httpRow # NotRun =>
              /\ httpRow.status = "ok"
              /\ TimeOf(httpRow) = <<9, 6, 1>>
              /\ TimeOf(httpRow) =
                    TimeOf(_build_feature_row(raw.merchant, raw.description,
                                              raw.amount, DefaultIsoDatetime))
        /\ cliRow # NotRun =>
              /\ cliRow.status = "ok"
              /\ TimeOf(cliRow) = <<9, 6, 1>>
              /\ TimeOf(cliRow) =
                    TimeOf(build_feature_row(raw.merchant, raw.description,
                                             raw.amount, DefaultIsoDatetime))

C2_Witness ==
    /\ raw.timestamp = NotADate
    /\ httpRow # NotRun /\ httpRow.status = "ok"
    /\ cliRow # NotRun /\ cliRow.status = "ok"

(***************************************************************************)
(* Claims on inference (Spec)                                              *)
(***************************************************************************)
\* The route function predict has answered a request.
HttpPredicted ==
    /\ httpResp # None
    /\ httpResp.route = "/predict"
    /\ httpResp.status # ValidationStatus

HttpRanked ==
    HttpPredicted /\ httpResp.status = 200 /\ "topk" \in DOMAIN httpResp.body

CliRan == cliOut # None

CliRankedOut ==
    CliRan /\ cliOut.exit = "ok" /\ "topk" \in DOMAIN cliOut.stdout

\* The ranked results held by the state, each with the k that was asked for,
\* the pipeline that was asked and the class names the entry point had.
Ranked ==
    (IF HttpRanked
     THEN {[topk |-> httpResp.body.topk, top1 |-> httpResp.body.top1,
            k |-> httpResp.body.input.topk, pipeline |-> _pipeline,
            class_names |-> _class_names]}
     ELSE {})
    \cup
    (IF CliRankedOut
     THEN {[topk |-> cliOut.stdout.topk, top1 |-> cliOut.stdout.top1,
            k |-> cliArgs.topk, pipeline |-> PayloadPipeline(modelFile),
            class_names |-> get_class_names(PayloadPipeline(modelFile))]}
     ELSE {})

AcceptedK(k) == k \in 1..MaxTopK

\* The class index an entry of a ranked list stands for.
IndicesOf(r, item) ==
    {i \in 1..Len(r.pipeline.proba) :
        IF r.class_names = None THEN item.category = ToString(i - 1)
        ELSE item.category = r.pipeline.classes[i]}

\* C3: for every accepted k the ranked list is in non-increasing probability
\* order, every entry carries the class name and the probability of one
\* index of the classifier's class order (the index itself where the entry
\* point has no class names), no class appears twice, and top1 is the first
\* entry.
C3_RankingCorrect ==
    \A r \in Ranked :
        AcceptedK(r.k) =>
            /\ \A j \in 1..(Len(r.topk) - 1) :
                  r.topk[j].probability >= r.topk[j + 1].probability
            /\ \A j \in 1..Len(r.topk) :
                  /\ Cardinality(IndicesOf(r, r.topk[j])) = 1
                  /\ \A i \in IndicesOf(r, r.topk[j]) :
                        r.topk[j].probability = r.pipeline.proba[i]
            /\ \A j, l \in 1..Len(r.topk) :
                  j # l => r.topk[j].category # r.topk[l].category
            /\ Len(r.topk) >= 1
            /\ r.top1 = r.topk[1]

\* The spec's example: [0.1, 0.5, 0.4] with k = 2 gives the second class
\* with 0.5, then the third with 0.4.
C3_Witness ==
    /\ HttpRanked
    /\ _pipeline.proba = <<1, 5, 4>>
    /\ httpResp.body.input.topk = 2
    /\ httpResp.body.topk =
          <<[category |-> _pipeline.classes[2], probability |-> 5],
            [category |-> _pipeline.classes[3], probability |-> 4]>>
    /\ httpResp.body.top1 =
          [category |-> _pipeline.classes[2], probability |-> 5]

\* C4 (as claimed): among entries of equal probability the class with the
\* lower index in the class order comes first.
C4_TiesLowerIndexFirst ==
    \A r \in Ranked :
        AcceptedK(r.k) =>
            \A j, l \in 1..Len(r.topk) :
                (j < l /\ r.topk[j].probability = r.topk[l].probability) =>
                    \A a \in IndicesOf(r, r.topk[j]),
                       b \in IndicesOf(r, r.topk[l]) : a < b

\* C5: for every k in 1..20 the ranked list has exactly min(k, n) entries.
C5_ClampedLength ==
    \A r \in Ranked :
        AcceptedK(r.k) =>
            Len(r.topk) = Min(r.k, Len(r.pipeline.classes))

\* k = 20 against the 9-class model gives 9 entries.
C5_Witness ==
    /\ HttpRanked
    /\ httpResp.body.input.topk = 20
    /\ Len(_pipeline.classes) = 9
    /\ Len(httpResp.body.topk) = 9

\* C6: a result of a model without probabilities holds the input and one
\* predicted label, a result of a model with probabilities holds the input,
\* top1 and topk; no result holds both a prediction and a ranked list.
C6_ExclusiveShapes ==
    /\ (HttpPredicted /\ httpResp.status = 200) =>
          /\ _pipeline.has_proba =>
                DOMAIN httpResp.body = {"input", "top1", "topk"}
          /\ ~_pipeline.has_proba =>
                DOMAIN httpResp.body = {"input", "prediction"}
    /\ (CliRan /\ cliOut.exit = "ok") =>
          /\ PayloadPipeline(modelFile).has_proba =>
                DOMAIN cliOut.stdout = {"input", "top1", "topk"}
          /\ ~PayloadPipeline(modelFile).has_proba =>
                DOMAIN cliOut.stdout = {"input", "prediction"}

C6_Witness ==
    /\ HttpPredicted /\ httpResp.status = 200
    /\ ~_pipeline.has_proba
    /\ httpResp.body.prediction = _pipeline.classes[_pipeline.pred]

\* C8: only load_model writes _pipeline and _class_names, taking the service
\* from not loaded to loaded; no request changes them; and /healthz reports
\* model_loaded as true exactly when a pipeline is loaded.
C8_LoadedStateFrame ==
    [][/\ (<<_pipeline, _class_names>>' # <<_pipeline, _class_names>>) =>
             /\ server = "created" /\ server' = "serving"
             /\ _pipeline = None /\ _pipeline' # None
       /\ (httpResp = None /\ httpResp' # None) =>
             /\ <<_pipeline, _class_names>>' = <<_pipeline, _class_names>>
             /\ httpResp'.route = "/healthz" =>
                   httpResp'.body.model_loaded = (_pipeline # None)]_vars

C8_Witness ==
    /\ server = "serving" /\ _pipeline # None
    /\ httpResp # None /\ httpResp.route = "/healthz"
    /\ httpResp.body.model_loaded

\* C9 (as claimed): a /predict handled while no model is loaded is answered
\* 503, the answer differs from the one for a model that is not fitted, and
\* the service keeps running.
C9_NotLoadedIs503 ==
    (HttpPredicted /\ _pipeline = None) =>
        /\ httpResp.status = 503
        /\ httpResp # HTTPException(NotFittedStatus, NotFittedDetail)
        /\ server # "exited"

\* C10 (as claimed): with a pipeline that is not fitted, inference ends in a
\* reported 'model not fitted' condition on both entry points, never in an
\* exception nobody handles.
C10_NotFittedReported ==
    /\ (HttpPredicted /\ _pipeline # None /\ ~_pipeline.fitted) =>
          httpResp = HTTPException(NotFittedStatus, NotFittedDetail)
    /\ (CliRan /\ modelFile # Missing /\ ~PayloadPipeline(modelFile).fitted) =>
          cliOut.exit # "traceback"

(***************************************************************************)
(* Validation at the boundary (Spec)                                       *)
(***************************************************************************)
\* A request the boundary must reject, by its top-k and its texts.
MustReject(r) ==
    \/ r.topk < MinTopK
    \/ r.topk > MaxTopK
    \/ r.merchant = <<>>
    \/ r.description = <<>>

\* C11: on both entry points a request whose top-k is zero, negative or
\* above 20, or whose merchant or description is empty, is rejected: the
\* HTTP route answers 422 without a ranking, the CLI run ends without
\* printing a result and without a traceback from the core; and every
\* ranked result has between 1 and min(k, n) entries and top1 is its first.
C11_RejectedAtBoundary ==
    /\ (httpReq # None /\ MustReject(httpReq)) =>
          httpResp.status = ValidationStatus
    /\ (CliRan /\ MustReject(cliArgs)) => cliOut.exit = "rejected"
    /\ \A r \in Ranked :
          /\ Len(r.topk) >= 1
          /\ Len(r.topk) <= Min(r.k, Len(r.pipeline.proba))
          /\ r.top1 = r.topk[1]

\* The HTTP half of C11 alone, which the code satisfies.
HttpRejectedAtBoundary ==
    /\ (httpReq # None /\ MustReject(httpReq)) =>
          httpResp.status = ValidationStatus
    /\ HttpRanked =>
          /\ Len(httpResp.body.topk) >= 1
          /\ Len(httpResp.body.topk)
                <= Min(httpResp.body.input.topk, Len(_pipeline.proba))

(***************************************************************************)
(* The artifact file (Spec)                                                *)
(***************************************************************************)
\* What each entry point holds once it has loaded the model file: the
\* pipeline and the label order its ranker names classes by.
Loaded ==
    (IF entry = "http" /\ server = "serving"
     THEN {[pipeline |-> _pipeline, class_names |-> _class_names]}
     ELSE {})
    \cup
    (IF CliRan /\ modelFile # Missing
     THEN {[pipeline |-> PayloadPipeline(modelFile),
            class_names |-> get_class_names(PayloadPipeline(modelFile))]}
     ELSE {})

\* C12: for a file written by save_artifacts(P, L) with P fitted, every
\* entry point that has loaded it holds the pipeline P and the label order
\* L; for a file that holds a bare fitted pipeline, it holds that pipeline
\* and the classifier's own class order.
C12_ArtifactRoundTrip ==
    \A l \in Loaded :
        /\ (modelFile.kind = "dict" /\ modelFile.pipeline.fitted) =>
              /\ l.pipeline = modelFile.pipeline
              /\ l.class_names = modelFile.labels
        /\ (modelFile.kind = "bare" /\ modelFile.object.fitted) =>
              /\ l.pipeline = modelFile.object
              /\ l.class_names = modelFile.object.classes

\* The part of C12 the code satisfies: the loaded pipeline is the saved one,
\* and the label order is the classifier's class order wherever the entry
\* point finds it.
LoadedPipelineIsSaved ==
    \A l \in Loaded :
        /\ l.pipeline = PayloadPipeline(modelFile)
        /\ (l.pipeline.fitted /\ l.class_names # None) =>
              l.class_names = l.pipeline.classes

(***************************************************************************)
(* Claims on the generator (SpecSynth)                                     *)
(***************************************************************************)
\* C7: two calls of synthesize_dataset with the same arguments and a seed
\* that is not None return the same records in the same order, whatever was
\* drawn from the random source before each call.
C7_SeededDeterminism ==
    \A i, j \in 1..Len(synthCalls) :
        (synthCalls[i].args = synthCalls[j].args
            /\ synthCalls[i].args.seed # None) =>
                synthCalls[i].rows = synthCalls[j].rows

\* Two calls with seed 42 and one sample per category, with draws by other
\* callers before the second.
C7_Witness ==
    /\ Len(synthCalls) = 2
    /\ otherDraws > 0
    /\ synthCalls[1].args = synthCalls[2].args
    /\ synthCalls[1].args.seed = Some(SettingsSeed)
    /\ synthCalls[1].args.default_samples_per_category = 1
    /\ Len(synthCalls[1].rows) > Len(Categories)

\* The records of all calls made so far, each with its call's arguments.
SynthRows ==
    UNION {{[args |-> synthCalls[i].args, row |-> synthCalls[i].rows[k],
             sampled |-> k <= Len(synthCalls[i].rows) - 4] :
               k \in 1..Len(synthCalls[i].rows)} :
           i \in 1..Len(synthCalls)}

CategorySet == {Categories[i] : i \in 1..Len(Categories)}

\* C13: every record synthesize_dataset returns, sampled or hand-written,
\* carries a label of the category catalog, and no record carries an
\* override key that is not a category.
C13_CatalogClosure ==
    \A r \in SynthRows :
        /\ r.row.label \in CategorySet
        /\ r.row.label \notin
              (DOMAIN r.args.per_category_overrides) \ CategorySet

\* A call whose overrides have a key that is no category has returned the
\* records of the categories and the hand-written ones.
C13_Witness ==
    \E r \in SynthRows :
        /\ "Lottery" \in DOMAIN r.args.per_category_overrides
        /\ r.sampled
        /\ r.row.label = "Income"

Abs(x) == IF x < 0 THEN 0 - x ELSE x

\* The amount, in hundredths, has the polarity of the label's AmountSpec and
\* an absolute value within its range.
PolarityMatches(row) ==
    LET spec == get_amount_spec(row.label)
    IN  /\ (row.label = "Income") => row.amount > 0
        /\ (row.label # "Income") => row.amount < 0
        /\ Abs(row.amount) >= spec.low * Pow10(DefaultNdigits)
        /\ Abs(row.amount) <= spec.high * Pow10(DefaultNdigits)

\* C16: every record of the output of synthesize_dataset, the hand-written
\* ones included, has a positive amount when labelled Income and a negative
\* amount otherwise, with the absolute amount within the range of its
\* label's AmountSpec.
C16_AmountPolarity ==
    \A r \in SynthRows : PolarityMatches(r.row)

\* The sampled records alone, which the code generates with rand_amount.
SampledAmountPolarity ==
    \A r \in SynthRows : r.sampled => PolarityMatches(r.row)

(***************************************************************************)
(* Claims on the amount sampler (SpecAmount)                               *)
(***************************************************************************)
Called(fn) == amountOut # None /\ amountOut.fn = fn

PlacesOf(decimal_places) ==
    IF decimal_places = None THEN DefaultNdigits ELSE decimal_places.value

\* A value counted in units of 10^-places, in hundredths.
InHundredths(value, places) == value * Pow10(DefaultNdigits - places)

\* C14: for every category, one without an AmountSpec of its own included,
\* rand_amount returns a value and raises nothing; the value lies between
\* sign*low and sign*high of the category's spec in sign-adjusted order,
\* and is a whole number of units of 10^-decimal_places.
C14_AmountWithinSpec ==
    Called("rand_amount") =>
        LET category == amountOut.args.category
            spec     == IF category \in AmountCategories
                        THEN SettingsAmounts(category) ELSE DefaultAmount
            places   == PlacesOf(amountOut.args.decimal_places)
            unit     == Pow10(DefaultNdigits)
        IN  /\ amountOut.result.status = "ok"
            /\ LET value == InHundredths(amountOut.result.row, places)
               IN  /\ (spec.sign = -1) =>
                         /\ (0 - spec.high) * unit <= value
                         /\ value <= (0 - spec.low) * unit
                   /\ (spec.sign = 1) =>
                         /\ spec.low * unit <= value
                         /\ value <= spec.high * unit
                   /\ value % Pow10(DefaultNdigits - places) = 0

\* rand_amount for a category settings.py does not know, rounded to whole
\* units, has returned the far end of the default range.
C14_Witness ==
    /\ Called("rand_amount")
    /\ amountOut.args.category = "Lottery"
    /\ amountOut.args.decimal_places = Some(0)
    /\ amountOut.result = Ok(0 - DefaultAmount.high)

SpecAndPlacesErrorsFailFast ==
    /\ (Called("AmountSpec") /\ amountOut.args.low > amountOut.args.high) =>
          amountOut.result = Raised("ValueError")
    /\ (Called("choose_random_amount")
          /\ PlacesOf(amountOut.args.decimal_places) < 0) =>
            /\ amountOut.result = Raised("ValueError")
            /\ rng = amountOut.rngBefore

====
